---- MODULE Spec2Model ----
(***************************************************************************)
(* Sprint dashboard: the Azure DevOps client (src/azure_devops_client.py), *)
(* the SprintAnalyzer's derived-metric queries (src/data_analyzer.py) and  *)
(* the Streamlit script's load and render cycle (src/app.py).              *)
(*                                                                         *)
(* Five specifications share the module's variables:                       *)
(*   SpecClient  one call of AzureDevOpsClient.get_work_items_details,     *)
(*               one action per batch request and per outcome of it;       *)
(*   SpecCalls   one call of get_iterations, get_current_iteration,        *)
(*               get_work_items_by_iteration, get_work_items_details or    *)
(*               get_burndown_data, with the log of the requests sent;     *)
(*   Spec        a constructed SprintAnalyzer (work items and iteration    *)
(*               drawn in Init), one action per get_* query and the        *)
(*               burndown chart drawn from get_daily_progress;             *)
(*   SpecNaive   the same analyzer over timestamps without a timezone,     *)
(*               queried for its blocked items;                            *)
(*   SpecApp     the reruns of main() over one browser session.            *)
(*                                                                         *)
(* Numbers: story points are integers. Percentages and scores, floats in   *)
(* the source, are exact rationals <<num, den>> with den > 0.              *)
(* Timestamps are integers counted in ticks of half a day.                 *)
(***************************************************************************)
EXTENDS Integers, Sequences, FiniteSets, TLC

VARIABLES
    \* ---- AzureDevOpsClient.get_work_items_details ----
    details_pc,        \* "idle" | "loop" | "returned"
    work_item_ids,     \* the argument
    batch_start,       \* the loop variable i of range(0, len, batch_size)
    all_work_items,    \* the accumulator
    posted,            \* the 'ids' payload of every session.post, in order
    responses,         \* per request: [ok |-> it did not raise, value |-> its items]
    details_result,    \* the returned list (<<>> before the return)
    \* ---- AzureDevOpsClient: the operation the caller invoked ----
    call_op,           \* its name, or "none"
    call_pc,           \* "idle" | "details" | "history" | "returned" | "raised"
    call_args,         \* its arguments
    call_response,     \* the upstream's answer to its first request
    sent,              \* every request sent to the upstream, in order
    history,           \* get_work_items_history's dict, one entry per request
    call_now,          \* datetime.now(timezone.utc) as it read it (0: not read)
    st_errors,         \* the st.error messages shown so far
    call_result,       \* [kind, value]: what it returned
    \* ---- SprintAnalyzer ----
    work_items,        \* self.work_items: the raw payloads
    iteration_info,    \* self.iteration_info
    df,                \* self.df, built by _create_dataframe
    changed_tz,        \* df['changed_date'].dt.tz: "UTC", or "naive" for None
    last_call,         \* the query whose result the caller holds, or "none"
    now_read,          \* what datetime.now() gave that call first (0: not read)
    now_again,         \* what its second datetime.now() gave (0: not read)
    raised,            \* the exception that call propagated, or "none"
    result,            \* what it returned (<<>> when it raised)

    \* ---- the Streamlit script (src/app.py) ----
    session_state,     \* st.session_state, which lives across the runs
    self_analyzer,     \* self.analyzer of the latest SprintDashboard
    run_config,        \* the sidebar's values in the latest run
    fetch_pressed,     \* the Fetch Data button returned True in it
    load_attempted,    \* it called load_data_with_config
    load_answer,       \* what the upstream answered to that load
    load_returned,     \* what load_data_with_config returned
    rendered,          \* "nothing" | "tabs" | "instructions"
    displayed,         \* the display_* methods it called
    fetch_enabled,     \* the page shows the Fetch Data button enabled
    guide_rendered,    \* the page shows a button of the guide
    clicks,            \* clicks on Fetch Data so far
    loads              \* load attempts so far

clientVars == <<details_pc, work_item_ids, batch_start, all_work_items,
                posted, responses, details_result>>
callVars == <<call_op, call_pc, call_args, call_response, call_now,
              st_errors, sent, history, call_result>>
analyzer == <<work_items, iteration_info, df, changed_tz>>
analyzerVars == <<analyzer, last_call, now_read, now_again, raised, result>>
\* Python's None, where the other values are records.
None == [none |-> TRUE]

appVars == <<session_state, self_analyzer, run_config, fetch_pressed,
             load_attempted, load_answer, load_returned, rendered, displayed,
             fetch_enabled, guide_rendered, clicks, loads>>
vars == <<clientVars, callVars, analyzerVars, appVars>>

(***************************************************************************)
(* Bounds of the model.                                                    *)
(***************************************************************************)
MaxIds == 250

(***************************************************************************)
(* Generic helpers.                                                        *)
(***************************************************************************)
Min(a, b) == IF a <= b THEN a ELSE b

\* Python's s[lo:hi] on a list, 0-based and clipped to the list's length.
Slice(s, lo, hi) == SubSeq(s, lo + 1, Min(hi, Len(s)))

RECURSIVE Flatten(_)
Flatten(ss) == IF ss = <<>> THEN <<>> ELSE Head(ss) \o Flatten(Tail(ss))

RECURSIVE SumSeq(_)
SumSeq(s) == IF s = <<>> THEN 0 ELSE Head(s) + SumSeq(Tail(s))

\* A Python dict is a function from its keys; {} is the function of no key.
EmptyDict == <<>>

\* d.get(key, default)
Get(d, key, default) == IF key \in DOMAIN d THEN d[key] ELSE default

(***************************************************************************)
(* AzureDevOpsClient.get_work_items_details                                *)
(***************************************************************************)
batch_size == 100

\* The upstream's batch answer for a list of IDs: one item per ID, in order.
BatchValue(ids) == [k \in 1..Len(ids) |-> [id |-> ids[k]]]

\* The payload's 'ids' of the request the loop is about to send.
BatchIdsWrong(ids, i) == Slice(ids, i, i + batch_size - 1)
BatchIds(ids, i) == Slice(ids, i, i + batch_size)

\* The loop variable after one iteration.
NextBatchStart(i) == i + batch_size

ClientIdle ==
    /\ details_pc = "idle"
    /\ work_item_ids = <<>>
    /\ batch_start = 0
    /\ all_work_items = <<>>
    /\ posted = <<>>
    /\ responses = <<>>
    /\ details_result = <<>>

NoResult == [kind |-> "pending", value |-> <<>>]

CallIdle ==
    /\ call_op = "none"
    /\ call_pc = "idle"
    /\ call_args = EmptyDict
    /\ call_response = EmptyDict
    /\ sent = <<>>
    /\ history = <<>>
    /\ call_now = 0
    /\ st_errors = 0
    /\ call_result = NoResult

\* session.get / session.post: the request goes out.
LogFirst(log, request) == <<request>> \o log
Log(log, request) == Append(log, request)

\* The call: `if not work_item_ids: return []`, else enter the loop.
CallDetails(n) ==
    /\ details_pc = "idle"
    /\ work_item_ids' = [k \in 1..n |-> k]
    /\ details_pc' = IF n = 0 THEN "returned" ELSE "loop"
    /\ UNCHANGED <<batch_start, all_work_items, posted, responses,
                   details_result, analyzerVars, appVars, callVars>>

\* One iteration whose post succeeds; has_value is whether the JSON carries
\* 'value' (batch_result.get('value', [])).
BatchOk(has_value) ==
    /\ details_pc = "loop"
    /\ batch_start < Len(work_item_ids)
    /\ LET batch_ids == BatchIds(work_item_ids, batch_start)
           value == IF has_value THEN BatchValue(batch_ids) ELSE <<>>
       IN
        /\ posted' = Append(posted, batch_ids)
        /\ responses' = Append(responses, [ok |-> TRUE, value |-> value])
        /\ all_work_items' = all_work_items \o value
    /\ batch_start' = NextBatchStart(batch_start)
    /\ sent' = Log(sent, [kind |-> "batch"])
    /\ UNCHANGED <<details_pc, work_item_ids, details_result, analyzerVars, appVars,
                   call_op, call_pc, call_args, call_response, call_now,
                   st_errors, history, call_result>>

\* One iteration whose post raises RequestException: st.error, continue.
BatchFailDropsAll(acc) == <<>>
BatchFailKeeps(acc) == acc

BatchFail ==
    /\ details_pc = "loop"
    /\ batch_start < Len(work_item_ids)
    /\ posted' = Append(posted, BatchIds(work_item_ids, batch_start))
    /\ responses' = Append(responses, [ok |-> FALSE, value |-> <<>>])
    /\ all_work_items' = BatchFailKeeps(all_work_items)
    /\ batch_start' = NextBatchStart(batch_start)
    /\ st_errors' = st_errors + 1
    /\ sent' = Log(sent, [kind |-> "batch"])
    /\ UNCHANGED <<details_pc, work_item_ids, details_result, analyzerVars, appVars,
                   call_op, call_pc, call_args, call_response, call_now,
                   history, call_result>>

\* The loop is exhausted: return all_work_items.
ReturnDetails ==
    /\ details_pc = "loop"
    /\ batch_start >= Len(work_item_ids)
    /\ details_pc' = "returned"
    /\ details_result' = all_work_items
    /\ UNCHANGED <<work_item_ids, batch_start, all_work_items, posted,
                   responses, analyzerVars, appVars, callVars>>

AnalyzerAbsent ==
    /\ work_items = <<>>
    /\ iteration_info = <<>>
    /\ df = <<>>
    /\ changed_tz = "UTC"
    /\ last_call = "none"
    /\ now_read = 0
    /\ now_again = 0
    /\ raised = "none"
    /\ result = <<>>

\* The browser session opens: nothing is in st.session_state and the
\* script has not run.
AppIdle ==
    /\ session_state = EmptyDict
    /\ self_analyzer = None
    /\ run_config = EmptyDict
    /\ fetch_pressed = FALSE
    /\ load_attempted = FALSE
    /\ load_answer = "none"
    /\ load_returned = FALSE
    /\ rendered = "nothing"
    /\ displayed = {}
    /\ fetch_enabled = FALSE
    /\ guide_rendered = FALSE
    /\ clicks = 0
    /\ loads = 0

InitClient == ClientIdle /\ CallIdle /\ AnalyzerAbsent /\ AppIdle

NextClient ==
    \/ \E n \in 0..MaxIds : CallDetails(n)
    \/ \E has_value \in BOOLEAN : BatchOk(has_value)
    \/ BatchFail
    \/ ReturnDetails

SpecClient == InitClient /\ [][NextClient]_vars

(***************************************************************************)
(* Claims about get_work_items_details (SpecClient).                       *)
(***************************************************************************)
CeilDiv(a, b) == (a + b - 1) \div b

DetailsReturnedNonEmpty == details_pc = "returned" /\ work_item_ids # <<>>

\* C1: for a non-empty list of n IDs the call issues exactly ceil(n/100)
\* batch requests; request k carries the k-th consecutive slice of the input,
\* at most 100 IDs, and the requests together carry every input ID once.
C1_BatchSlices ==
    DetailsReturnedNonEmpty =>
        LET n == Len(work_item_ids) IN
        /\ Len(posted) = CeilDiv(n, 100)
        /\ \A k \in 1..Len(posted) :
              /\ Len(posted[k]) >= 1
              /\ Len(posted[k]) <= 100
              /\ posted[k] = SubSeq(work_item_ids, 100 * (k - 1) + 1,
                                    Min(100 * k, n))
        /\ Flatten(posted) = work_item_ids

\* C1 witness: 250 IDs went out as requests of 100, 100 and 50 IDs.
C1_Witness ==
    /\ details_pc = "returned"
    /\ Len(work_item_ids) = 250
    /\ Len(posted) = 3
    /\ <<Len(posted[1]), Len(posted[2]), Len(posted[3])>> = <<100, 100, 50>>

RECURSIVE SuccessfulItems(_)
SuccessfulItems(rs) ==
    IF rs = <<>> THEN <<>>
    ELSE (IF Head(rs).ok THEN Head(rs).value ELSE <<>>)
             \o SuccessfulItems(Tail(rs))

\* C2: a failing batch request is skipped without raising: every batch is
\* still requested, the call returns, and the returned list is exactly the
\* concatenation of the items of the batches that succeeded; while the loop
\* runs the accumulator already holds the items of the successful batches.
C2_FailedBatchSkipped ==
    /\ details_pc = "loop" =>
          /\ all_work_items = SuccessfulItems(responses)
          /\ Len(posted) = Len(responses)
    /\ DetailsReturnedNonEmpty =>
          /\ Len(responses) = CeilDiv(Len(work_item_ids), 100)
          /\ details_result = SuccessfulItems(responses)

\* C2 witness: 250 IDs, the middle batch failed, 150 items returned.
C2_Witness ==
    /\ details_pc = "returned"
    /\ Len(work_item_ids) = 250
    /\ Len(responses) = 3
    /\ responses[1].ok /\ ~responses[2].ok /\ responses[3].ok
    /\ Len(details_result) = 150


(***************************************************************************)
(* SprintAnalyzer: the inputs.                                             *)
(*                                                                         *)
(* A raw work item is the payload's dict [id, fields]; a field the payload *)
(* does not carry is a key the dict does not have. System.ChangedDate is   *)
(* always carried. The strings of the model, in Python's str order:        *)
(***************************************************************************)
StrOrder == <<"", "Active", "Alice", "Blocked", "Bob", "Bug", "Closed",
              "Committed", "Critical", "Done", "High", "Hotfix bug", "Low", "Medium",
              "New", "Removed", "Resolved", "Task", "Unassigned",
              "User Story">>

StrRank(x) == CHOOSE k \in 1..Len(StrOrder) : StrOrder[k] = x

\* One calendar day (timedelta(days=1), freq='D') in ticks.
Day == 2

\* An optional key: opt is {} (the key is absent) or {v}.
Field(key, opt) == [k \in {key : v \in opt} |-> CHOOSE v \in opt : TRUE]

Fields(type, state, assignee, points, priority, changed) ==
    Field("System.WorkItemType", type)
    @@ Field("System.State", state)
    @@ Field("System.AssignedTo", {[displayName |-> a] : a \in assignee})
    @@ Field("Microsoft.VSTS.Scheduling.StoryPoints", points)
    @@ Field("Microsoft.VSTS.Common.Priority", priority)
    @@ Field("System.ChangedDate", {changed})

\* The field dicts the work items are drawn from: each line varies one or
\* two fields of a plain item.
FieldUniverse ==
    \* every state, by Alice, changed 4 days before the earliest "now"
    {Fields({"Task"}, {st}, {"Alice"}, {3}, {2}, 2) :
        st \in {"Active", "New", "Committed", "Blocked", "Removed",
                "Closed"}}
    \* completed work of Bob, changed during the sprint
    \cup {Fields({ty}, {st}, {"Bob"}, {5}, {1}, 3) :
            ty \in {"Bug", "User Story"}, st \in {"Resolved", "Done"}}
    \* story points: none, zero, negative
    \cup {Fields({"Task"}, {st}, {"Bob"}, pts, {3}, 4) :
            st \in {"Closed", "Active"}, pts \in {{}, {0}, {-2}}}
    \* priorities outside the label table, and none
    \cup {Fields({"Task"}, {"Active"}, {"Alice"}, {2}, pr, 6) :
            pr \in {{4}, {9}, {}}}
    \* nobody assigned, no type, no state
    \cup {Fields({}, {}, {}, {1}, {2}, 6)}
    \* old work: closed 10 days ago, active and untouched for 3.5 days
    \cup {Fields({"Bug"}, {"Closed"}, {"Alice"}, {2}, {3}, -10),
          Fields({"Task"}, {"Active"}, {"Bob"}, {5}, {3}, 3)}
    \* a type that holds "bug" inside and in lower case, not yet completed
    \* and completed
    \cup {Fields({"Hotfix bug"}, {st}, {"Bob"}, {3}, {2}, 3) :
            st \in {"Active", "Done"}}

MaxItems == 2

SeqsUpTo(S, n) == UNION {[1..k -> S] : k \in 0..n}

\* The work items of a list of field dicts; the upstream numbers them.
\* and every item carries a title of its own.
Items(fs) ==
    [k \in 1..Len(fs) |->
        [id |-> k, fields |-> ("System.Title" :> ToString(k)) @@ fs[k]]]

\* The end-to-end example: six Closed items and four Active ones.
ExampleItem(state, points) ==
    Fields({"Task"}, {state}, {"Alice"}, {points}, {2}, 2)

ExampleSprint ==
    <<ExampleItem("Closed", 3), ExampleItem("Closed", 5),
      ExampleItem("Closed", 2), ExampleItem("Closed", 1),
      ExampleItem("Closed", 4), ExampleItem("Closed", 2),
      ExampleItem("Active", 2), ExampleItem("Active", 3),
      ExampleItem("Active", 1), ExampleItem("Active", 2)>>

FieldLists == SeqsUpTo(FieldUniverse, MaxItems) \cup {ExampleSprint}

\* Iteration records: none, a sprint of zero duration, of 2 days, and one
\* finishing half a day after its third midnight.
Iteration(start, finish) ==
    [attributes |-> [startDate |-> start, finishDate |-> finish]]

\* An iteration no dates were set for: its attributes carry no start or
\* finish date.
DatelessIteration == [attributes |-> [timeFrame |-> "future"]]

Iterations == {EmptyDict, DatelessIteration,
               Iteration(0, 0), Iteration(0, 4), Iteration(0, 5)}

\* The values datetime.now(timezone.utc) takes.
NowSet == {10, 11}

(***************************************************************************)
(* SprintAnalyzer._create_dataframe                                        *)
(***************************************************************************)
\* `fields.get(StoryPoints, 0) or 0`
StoryPointsOf(fields) ==
    LET v == Get(fields, "Microsoft.VSTS.Scheduling.StoryPoints", 0) IN
    IF v # 0 THEN v ELSE 0

AssigneeOf(fields) ==
    LET assigned_to == Get(fields, "System.AssignedTo", EmptyDict) IN
    IF assigned_to # EmptyDict
    THEN Get(assigned_to, "displayName", "Unassigned")
    ELSE "Unassigned"

Row(item) ==
    LET fields == Get(item, "fields", EmptyDict) IN
    [id             |-> item.id,
     title          |-> Get(fields, "System.Title", ""),
     work_item_type |-> Get(fields, "System.WorkItemType", ""),
     state          |-> Get(fields, "System.State", ""),
     assigned_to    |-> AssigneeOf(fields),
     changed_date   |-> fields["System.ChangedDate"],
     story_points   |-> StoryPointsOf(fields),
     priority       |-> Get(fields, "Microsoft.VSTS.Common.Priority", 2)]

\* An empty work-item list gives pd.DataFrame(): no rows and no columns.
CreateDataframe(items) ==
    IF items = <<>> THEN <<>> ELSE [k \in 1..Len(items) |-> Row(items[k])]

(***************************************************************************)
(* DataFrame helpers.                                                      *)
(***************************************************************************)
Column(rows, col) == [k \in 1..Len(rows) |-> rows[k][col]]

SumCol(rows, col) == SumSeq(Column(rows, col))

Values(rows, col) == {rows[k][col] : k \in 1..Len(rows)}

\* df[df[col] == v]
WhereEq(rows, col, v) == SelectSeq(rows, LAMBDA r : r[col] = v)

\* df[df[col].isin(vs)]
IsIn(rows, col, vs) == SelectSeq(rows, LAMBDA r : r[col] \in vs)

\* The keys of df.groupby(col), which sorts them.
GroupKeys(rows, col) ==
    SelectSeq(StrOrder, LAMBDA x : x \in Values(rows, col))

\* A float of the source: n / d for d > 0.
Rat(n, d) == <<n, d>>
RatLeq(a, b) == a[1] * b[2] <= b[1] * a[2]
RatEq(a, b) == a[1] * b[2] = b[1] * a[2]
RatLt(a, b) == a[1] * b[2] < b[1] * a[2]

(***************************************************************************)
(* SprintAnalyzer.get_sprint_summary                                       *)
(***************************************************************************)
completed_states == {"Done", "Closed", "Resolved"}
in_progress_states == {"Active", "Doing", "In Progress"}

\* `(part / whole * 100) if whole > 0 else 0`
Percent(part, whole) == IF whole > 0 THEN Rat(part * 100, whole) ELSE Rat(0, 1)

CompletedRowsClosedOnly(rows) == IsIn(rows, "state", {"Closed"})
CompletedRows(rows) == IsIn(rows, "state", completed_states)

SprintSummary(rows) ==
    IF rows = <<>> THEN EmptyDict
    ELSE
    LET total_items == Len(rows)
        total_story_points == SumCol(rows, "story_points")
        completed_items == CompletedRows(rows)
        completed_count == Len(completed_items)
        completed_story_points == SumCol(completed_items, "story_points")
    IN
    [total_items             |-> total_items,
     total_story_points      |-> total_story_points,
     completed_items         |-> completed_count,
     completed_story_points  |-> completed_story_points,
     in_progress_items       |-> Len(IsIn(rows, "state", in_progress_states)),
     completion_percentage   |-> Percent(completed_count, total_items),
     story_points_completion |->
         Percent(completed_story_points, total_story_points),
     state_distribution      |->
         [st \in Values(rows, "state") |-> Len(WhereEq(rows, "state", st))]]

GetSprintSummary ==
    /\ last_call = "none"
    /\ last_call' = "get_sprint_summary"
    /\ now_read' = 0
    /\ now_again' = 0
    /\ raised' = "none"
    /\ result' = SprintSummary(df)
    /\ UNCHANGED <<analyzer, clientVars, callVars,
                   appVars>>

(***************************************************************************)
(* SprintAnalyzer.get_work_item_type_distribution                          *)
(***************************************************************************)
\* df.groupby(col).agg({'id': 'count', 'story_points': 'sum'}) as one row
\* per key, the keys sorted.
GroupCountSumDropsEmptyKey(rows, col) ==
    LET keys == SelectSeq(GroupKeys(rows, col), LAMBDA x : x # "") IN
    [k \in 1..Len(keys) |->
        [key          |-> keys[k],
         count        |-> Len(WhereEq(rows, col, keys[k])),
         story_points |-> SumCol(WhereEq(rows, col, keys[k]), "story_points")]]

GroupCountSum(rows, col) ==
    LET keys == GroupKeys(rows, col) IN
    [k \in 1..Len(keys) |->
        [key          |-> keys[k],
         count        |-> Len(WhereEq(rows, col, keys[k])),
         story_points |-> SumCol(WhereEq(rows, col, keys[k]), "story_points")]]

WorkItemTypeDistribution(rows) ==
    IF rows = <<>> THEN <<>>
    ELSE LET g == GroupCountSum(rows, "work_item_type") IN
         [k \in 1..Len(g) |->
            [work_item_type |-> g[k].key,
             count          |-> g[k].count,
             story_points   |-> g[k].story_points]]

GetWorkItemTypeDistribution ==
    /\ last_call = "none"
    /\ last_call' = "get_work_item_type_distribution"
    /\ now_read' = 0
    /\ now_again' = 0
    /\ raised' = "none"
    /\ result' = WorkItemTypeDistribution(df)
    /\ UNCHANGED <<analyzer, clientVars, callVars,
                   appVars>>

(***************************************************************************)
(* SprintAnalyzer.get_assignee_workload                                    *)
(***************************************************************************)
\* A stable descending sort on integers: larger first, equal values in the
\* order they had. The first row is put into the sorted rest, before the
\* rows equal to it.
RECURSIVE InsertDesc(_, _, _)
InsertDesc(r, sorted, col) ==
    IF sorted = <<>> THEN <<r>>
    ELSE IF Head(sorted)[col] > r[col]
         THEN <<Head(sorted)>> \o InsertDesc(r, Tail(sorted), col)
         ELSE <<r>> \o sorted

RECURSIVE SortValuesDesc(_, _)
SortValuesDesc(rows, col) ==
    IF rows = <<>> THEN <<>>
    ELSE InsertDesc(rows[1],
                    SortValuesDesc(SubSeq(rows, 2, Len(rows)), col), col)

RECURSIVE Perms(_)
Perms(S) ==
    IF S = {} THEN {<<>>}
    ELSE UNION {{<<x>> \o p : p \in Perms(S \ {x})} : x \in S}

Permute(rows, perm) == [k \in 1..Len(rows) |-> rows[perm[k]]]

\* sort_values(col, ascending=False) with its default kind='quicksort', which
\* is not a stable sort: larger values first, and equal values in an order
\* the numpy build chooses. Every descending order of the rows is an
\* outcome.
SortValuesUnsorted(rows, col) ==
    {Permute(rows, perm) : perm \in Perms(1..Len(rows))}
SortValues(rows, col) ==
    {SortValuesDesc(Permute(rows, perm), col) :
        perm \in Perms(1..Len(rows))}

\* The left merge with the completed groups; fillna(0) for a group with none.
CompletedOf(rows, assignee) ==
    WhereEq(CompletedRows(rows), "assigned_to", assignee)

AssigneeWorkloadInnerMerge(rows) ==
    LET g == SelectSeq(GroupCountSum(rows, "assigned_to"),
                       LAMBDA x : CompletedOf(rows, x.key) # <<>>) IN
    [k \in 1..Len(g) |->
        LET done == CompletedOf(rows, g[k].key) IN
        [assigned_to            |-> g[k].key,
         total_items            |-> g[k].count,
         story_points           |-> g[k].story_points,
         completed_items        |-> Len(done),
         completed_story_points |-> SumCol(done, "story_points"),
         completion_rate        |-> Rat(Len(done) * 100, g[k].count)]]

AssigneeWorkloadUnsorted(rows) ==
    LET g == GroupCountSum(rows, "assigned_to") IN
    [k \in 1..Len(g) |->
        LET done == CompletedOf(rows, g[k].key) IN
        [assigned_to            |-> g[k].key,
         total_items            |-> g[k].count,
         story_points           |-> g[k].story_points,
         completed_items        |-> Len(done),
         completed_story_points |-> SumCol(done, "story_points"),
         completion_rate        |-> Rat(Len(done) * 100, g[k].count)]]

\* The frames get_assignee_workload can return.
AssigneeWorkload(rows) ==
    IF rows = <<>> THEN {<<>>}
    ELSE SortValues(AssigneeWorkloadUnsorted(rows), "story_points")

GetAssigneeWorkload ==
    /\ last_call = "none"
    /\ last_call' = "get_assignee_workload"
    /\ now_read' = 0
    /\ now_again' = 0
    /\ raised' = "none"
    /\ result' \in AssigneeWorkload(df)
    /\ UNCHANGED <<analyzer, clientVars, callVars,
                   appVars>>

(***************************************************************************)
(* SprintAnalyzer.get_priority_distribution                                *)
(***************************************************************************)
priority_mapping == (1 :> "Critical") @@ (2 :> "High") @@ (3 :> "Medium")
                    @@ (4 :> "Low")

\* Series.map(priority_mapping) gives NaN for a priority the dict lacks, and
\* groupby leaves the rows whose key is NaN out.
Labelled(rows) ==
    LET mapped == SelectSeq(rows,
                      LAMBDA r : r.priority \in DOMAIN priority_mapping) IN
    [k \in 1..Len(mapped) |->
        [priority_label |-> priority_mapping[mapped[k].priority],
         id             |-> mapped[k].id,
         story_points   |-> mapped[k].story_points]]

PriorityDistribution(rows) ==
    IF rows = <<>> THEN <<>>
    ELSE LET g == GroupCountSum(Labelled(rows), "priority_label") IN
         [k \in 1..Len(g) |->
            [priority_label |-> g[k].key,
             count          |-> g[k].count,
             story_points   |-> g[k].story_points]]

GetPriorityDistribution ==
    /\ last_call = "none"
    /\ last_call' = "get_priority_distribution"
    /\ now_read' = 0
    /\ now_again' = 0
    /\ raised' = "none"
    /\ result' = PriorityDistribution(df)
    /\ UNCHANGED <<analyzer, clientVars, callVars,
                   appVars>>

(***************************************************************************)
(* SprintAnalyzer.get_daily_progress                                       *)
(***************************************************************************)
\* pd.date_range(start, end, freq='D'): start, start + 1 day, ... up to end.
DateRangeHalfOpen(start, end) ==
    IF end < start THEN <<>>
    ELSE [k \in 1..((end - start) \div Day) |-> start + (k - 1) * Day]
DateRange(start, end) ==
    IF end < start THEN <<>>
    ELSE [k \in 1..((end - start) \div Day + 1) |-> start + (k - 1) * Day]

\* iteration_info['attributes']['startDate'] and [...]['finishDate'] are
\* plain subscripts: they raise when the key is not there.
HasDates(iteration) ==
    /\ "attributes" \in DOMAIN iteration
    /\ {"startDate", "finishDate"} \subseteq DOMAIN iteration.attributes

\* The guard of get_daily_progress and get_velocity_data returned early.
NoSprintData(rows, iteration) == rows = <<>> \/ iteration = EmptyDict

DateLookupRaises(rows, iteration) ==
    ~NoSprintData(rows, iteration) /\ ~HasDates(iteration)

DailyProgress(rows, iteration) ==
    IF NoSprintData(rows, iteration) \/ ~HasDates(iteration) THEN <<>>
    ELSE
    LET date_range == DateRange(iteration.attributes.startDate,
                                iteration.attributes.finishDate)
        total_story_points == SumCol(rows, "story_points")
    IN
    [k \in 1..Len(date_range) |->
        LET completed_items ==
                SelectSeq(rows, LAMBDA r : /\ r.changed_date <= date_range[k]
                                           /\ r.state \in completed_states)
            completed_points == SumCol(completed_items, "story_points")
        IN
        [date                   |-> date_range[k],
         remaining_story_points |-> total_story_points - completed_points,
         completed_story_points |-> completed_points,
         total_story_points     |-> total_story_points]]

GetDailyProgress ==
    /\ last_call = "none"
    /\ last_call' = "get_daily_progress"
    /\ now_read' = 0
    /\ now_again' = 0
    /\ raised' = IF DateLookupRaises(df, iteration_info)
                 THEN "KeyError" ELSE "none"
    /\ result' = DailyProgress(df, iteration_info)
    /\ UNCHANGED <<analyzer, clientVars, callVars,
                   appVars>>

(***************************************************************************)
(* DashboardVisualizations.create_burndown_chart, called by the dashboard  *)
(* with the frame get_daily_progress returned.                             *)
(***************************************************************************)
\* ideal_line = [total_points - total_points * i / (len - 1) for i in
\* range(len)], each value as the quotient <<num, den>> over the divisor
\* len - 1 the code divides by; den = 0 is a division by zero (numpy gives
\* nan for it).
IdealLine(daily_progress) ==
    LET total_points == daily_progress[1].total_story_points
        divisor == Len(daily_progress) - 1
    IN
    [k \in 1..Len(daily_progress) |->
        Rat(total_points * divisor - total_points * (k - 1), divisor)]

\* The figure's traces; an empty frame gives the annotated empty figure.
BurndownChart(daily_progress) ==
    IF daily_progress = <<>>
    THEN [dates |-> <<>>, ideal |-> <<>>, actual |-> <<>>]
    ELSE [dates  |-> Column(daily_progress, "date"),
          ideal  |-> IdealLine(daily_progress),
          actual |-> Column(daily_progress, "remaining_story_points")]

CreateBurndownChart ==
    /\ last_call = "get_daily_progress"
    /\ raised = "none"
    /\ last_call' = "create_burndown_chart"
    /\ result' = BurndownChart(result)
    /\ UNCHANGED <<analyzer, now_read, now_again, raised, clientVars, callVars,
                   appVars>>

(***************************************************************************)
(* SprintAnalyzer.get_velocity_data                                        *)
(***************************************************************************)
\* (end_date - start_date).days: the whole days of the difference.
SprintDuration(iteration) ==
    (iteration.attributes.finishDate - iteration.attributes.startDate) \div Day

VelocityPerDay(completed_points, sprint_duration) ==
    IF sprint_duration > 0 THEN Rat(completed_points, sprint_duration)
    ELSE Rat(0, 1)

VelocityData(rows, iteration) ==
    IF NoSprintData(rows, iteration) \/ ~HasDates(iteration) THEN EmptyDict
    ELSE
    LET sprint_duration == SprintDuration(iteration)
        completed_points == SumCol(CompletedRows(rows), "story_points")
        planned_points == SumCol(rows, "story_points")
    IN
    [sprint_duration        |-> sprint_duration,
     planned_story_points   |-> planned_points,
     completed_story_points |-> completed_points,
     velocity_per_day       |-> VelocityPerDay(completed_points, sprint_duration),
     completion_rate        |-> Percent(completed_points, planned_points)]

GetVelocityData ==
    /\ last_call = "none"
    /\ last_call' = "get_velocity_data"
    /\ now_read' = 0
    /\ now_again' = 0
    /\ raised' = IF DateLookupRaises(df, iteration_info)
                 THEN "KeyError" ELSE "none"
    /\ result' = VelocityData(df, iteration_info)
    /\ UNCHANGED <<analyzer, clientVars, callVars,
                   appVars>>

(***************************************************************************)
(* SprintAnalyzer.get_blocked_items                                        *)
(*                                                                         *)
(* changed_tz is the timezone of changed_date: "UTC" for the upstream's    *)
(* timestamps, which end in Z, "naive" for timestamps without one. The     *)
(* clock is read twice: now1 for the cutoff, now2 for the age.             *)
(***************************************************************************)
incomplete_states == {"New", "Active", "Doing", "To Do", "In Progress"}

\* timedelta(days=3)
staleness_days == 3

\* `if not df_copy['changed_date'].dt.tz: ... .dt.tz_localize('UTC')`: the
\* column's timezone when it is compared; a naive column is stamped UTC, its
\* clock readings kept.
LocalizedTz(tz) == IF tz = "naive" THEN "UTC" ELSE tz

\* Comparing the column with the aware cutoff raises TypeError unless the
\* column is aware.
CutoffComparisonRaises(rows, tz) == rows # <<>> /\ LocalizedTz(tz) = "naive"

BlockedRows(rows, now1, now2) ==
    LET cutoff_date == now1 - staleness_days * Day
        blocked_items ==
            SelectSeq(rows, LAMBDA r : /\ r.changed_date < cutoff_date
                                       /\ r.state \in incomplete_states)
    IN
    [k \in 1..Len(blocked_items) |->
        [id                |-> blocked_items[k].id,
         work_item_type    |-> blocked_items[k].work_item_type,
         state             |-> blocked_items[k].state,
         assigned_to       |-> blocked_items[k].assigned_to,
         days_since_update |->
             (now2 - blocked_items[k].changed_date) \div Day]]

\* The frames get_blocked_items can return.
BlockedItems(rows, now1, now2) ==
    IF rows = <<>> THEN {<<>>}
    ELSE SortValues(BlockedRows(rows, now1, now2), "days_since_update")

GetBlockedItems(now1, now2) ==
    /\ last_call = "none"
    /\ now1 <= now2
    /\ last_call' = "get_blocked_items"
    /\ now_read' = IF df = <<>> THEN 0 ELSE now1
    /\ now_again' = IF BlockedRows(df, now1, now2) = <<>> THEN 0 ELSE now2
    /\ raised' = IF CutoffComparisonRaises(df, changed_tz)
                 THEN "TypeError" ELSE "none"
    /\ result' \in BlockedItems(df, now1, now2)
    /\ UNCHANGED <<analyzer, clientVars, callVars,
                   appVars>>

(***************************************************************************)
(* SprintAnalyzer.get_sprint_champion_analysis                             *)
(***************************************************************************)
\* str.contains('Bug', case=False) on the work item types of the model.
ContainsBug(type) == type \in {"Bug", "Hotfix bug"}

\* assignees with at least this many story points are scored
min_story_points == 3

SignificantContributorsAboveOnly(workload) ==
    SelectSeq(workload, LAMBDA w : /\ w.assigned_to # "Unassigned"
                                   /\ w.story_points > min_story_points)
SignificantContributors(workload) ==
    SelectSeq(workload, LAMBDA w : /\ w.assigned_to # "Unassigned"
                                   /\ w.story_points >= min_story_points)

\* completion_rate * 0.4 + min(completed_story_points / 10 * 20, 30)
\*   + high_priority_completed * 5 + significant_items_completed * 3
\*   + bug_fixes * 2, over the denominator of completion_rate.
ScoreUncapped(completion_rate, completed_story_points, high, significant, bugs) ==
    Rat(completion_rate[1] * 4
          + completion_rate[2] * 10
              * (completed_story_points * 2
                 + high * 5 + significant * 3 + bugs * 2),
        completion_rate[2] * 10)
Score(completion_rate, completed_story_points, high, significant, bugs) ==
    Rat(completion_rate[1] * 4
          + completion_rate[2] * 10
              * (Min(completed_story_points * 2, 30)
                 + high * 5 + significant * 3 + bugs * 2),
        completion_rate[2] * 10)

ChampionEntry(rows, contributor) ==
    LET assignee == contributor.assigned_to
        assignee_work == WhereEq(rows, "assigned_to", assignee)
        completed_work == CompletedRows(assignee_work)
        high_priority_completed ==
            Len(SelectSeq(completed_work, LAMBDA r : r.priority <= 2))
        significant_items_completed ==
            Len(SelectSeq(completed_work, LAMBDA r : r.story_points >= 5))
        bug_fixes ==
            Len(SelectSeq(completed_work,
                          LAMBDA r : ContainsBug(r.work_item_type)))
    IN
    [assignee                    |-> assignee,
     score                       |->
         Score(contributor.completion_rate,
               contributor.completed_story_points, high_priority_completed,
               significant_items_completed, bug_fixes),
     completion_rate             |-> contributor.completion_rate,
     story_points                |-> contributor.story_points,
     completed_story_points      |-> contributor.completed_story_points,
     total_items                 |-> contributor.total_items,
     completed_items             |-> contributor.completed_items,
     high_priority_completed     |-> high_priority_completed,
     significant_items_completed |-> significant_items_completed,
     bug_fixes                   |-> bug_fixes]

\* list.sort(key=score, reverse=True): larger scores first, equal scores in
\* the order they had.
RECURSIVE InsertByScore(_, _)
InsertByScore(e, sorted) ==
    IF sorted = <<>> THEN <<e>>
    ELSE IF RatLt(e.score, Head(sorted).score)
         THEN <<Head(sorted)>> \o InsertByScore(e, Tail(sorted))
         ELSE <<e>> \o sorted

RECURSIVE SortByScore(_)
SortByScore(entries) ==
    IF entries = <<>> THEN <<>>
    ELSE InsertByScore(entries[1],
                       SortByScore(SubSeq(entries, 2, Len(entries))))

\* assignee_workload is what self.get_assignee_workload() returned.
SprintChampionAnalysis(rows, assignee_workload) ==
    IF rows = <<>> THEN EmptyDict
    ELSE
    LET significant_contributors ==
            SignificantContributors(assignee_workload)
    IN
    IF significant_contributors = <<>> THEN EmptyDict
    ELSE
    LET champion_scores ==
            SortByScore([k \in 1..Len(significant_contributors) |->
                            ChampionEntry(rows, significant_contributors[k])])
    IN
    [champion   |-> champion_scores[1],
     all_scores |-> champion_scores]

GetSprintChampionAnalysis ==
    /\ last_call = "none"
    /\ last_call' = "get_sprint_champion_analysis"
    /\ now_read' = 0
    /\ now_again' = 0
    /\ raised' = "none"
    /\ \E assignee_workload \in AssigneeWorkload(df) :
           result' = SprintChampionAnalysis(df, assignee_workload)
    /\ UNCHANGED <<analyzer, clientVars, callVars,
                   appVars>>

(***************************************************************************)
(* SprintAnalyzer.get_important_work_analysis                              *)
(***************************************************************************)
\* str.contains('Feature|User Story|Story', case=False) on the work item
\* types of the model.
ContainsFeature(type) == type \in {"User Story"}

\* the records of to_dict('records') that a bucket shows
sample_size == 5

SampleRecords(work) ==
    [k \in 1..Len(work) |->
        [title          |-> work[k].title,
         work_item_type |-> work[k].work_item_type,
         assigned_to    |-> work[k].assigned_to,
         story_points   |-> work[k].story_points]]

\* records[:5]
SampleAll(records) == records
Sample(records) == Slice(records, 0, sample_size)

\* `if not work.empty: achievements.append({...})`
Achievement(type, work) ==
    IF work = <<>> THEN <<>>
    ELSE <<[type         |-> type,
            count        |-> Len(work),
            story_points |-> SumCol(work, "story_points"),
            items        |-> Sample(SampleRecords(work))]>>

\* groupby('work_item_type').agg(count, sum, first five titles), as the dict
\* to_dict('index') gives.
WorkByType(completed_items) ==
    [t \in Values(completed_items, "work_item_type") |->
        LET of_type == WhereEq(completed_items, "work_item_type", t) IN
        [count         |-> Len(of_type),
         story_points  |-> SumCol(of_type, "story_points"),
         sample_titles |-> Slice(Column(of_type, "title"), 0, sample_size)]]

ImportantWorkAnalysis(rows) ==
    IF rows = <<>> THEN EmptyDict
    ELSE
    LET completed_items == CompletedRows(rows)
        high_priority_work ==
            SelectSeq(completed_items, LAMBDA r : r.priority <= 2)
        significant_work ==
            SelectSeq(completed_items, LAMBDA r : r.story_points >= 5)
        bug_fixes ==
            SelectSeq(completed_items,
                      LAMBDA r : ContainsBug(r.work_item_type))
        features ==
            SelectSeq(completed_items,
                      LAMBDA r : ContainsFeature(r.work_item_type))
    IN
    [total_completed_items        |-> Len(completed_items),
     total_completed_story_points |-> SumCol(completed_items, "story_points"),
     work_by_type                 |-> WorkByType(completed_items),
     achievements                 |->
         Achievement("High Priority Work", high_priority_work)
             \o Achievement("Significant Features", significant_work)
             \o Achievement("Bug Fixes", bug_fixes)
             \o Achievement("Features & Stories", features),
     high_priority_completed      |-> Len(high_priority_work),
     significant_work_completed   |-> Len(significant_work)]

GetImportantWorkAnalysis ==
    /\ last_call = "none"
    /\ last_call' = "get_important_work_analysis"
    /\ now_read' = 0
    /\ now_again' = 0
    /\ raised' = "none"
    /\ result' = ImportantWorkAnalysis(df)
    /\ UNCHANGED <<analyzer, clientVars, callVars,
                   appVars>>

(***************************************************************************)
(* The analyzer's specification: a constructed SprintAnalyzer; the caller  *)
(* calls a query, holds its result, drops it and calls the next.           *)
(***************************************************************************)
ConsumeResult ==
    /\ last_call # "none"
    /\ last_call' = "none"
    /\ now_read' = 0
    /\ now_again' = 0
    /\ raised' = "none"
    /\ result' = <<>>
    /\ UNCHANGED <<analyzer, clientVars, callVars,
                   appVars>>

\* A constructed analyzer whose changed_date column has the timezone tz:
\* "UTC" when the payload's timestamps end in Z, as Azure DevOps sends them,
\* "naive" when they carry no offset.
Constructed(tz) ==
    /\ ClientIdle
    /\ CallIdle
    /\ AppIdle
    /\ \E fs \in FieldLists : work_items = Items(fs)
    /\ iteration_info \in Iterations
    /\ df = CreateDataframe(work_items)
    /\ changed_tz = tz
    /\ last_call = "none"
    /\ now_read = 0
    /\ now_again = 0
    /\ raised = "none"
    /\ result = <<>>

Init == Constructed("UTC")

Next ==
    \/ GetSprintSummary
    \/ GetWorkItemTypeDistribution
    \/ GetAssigneeWorkload
    \/ GetPriorityDistribution
    \/ GetDailyProgress
    \/ CreateBurndownChart
    \/ GetVelocityData
    \/ \E now1 \in NowSet, now2 \in NowSet : GetBlockedItems(now1, now2)
    \/ GetSprintChampionAnalysis
    \/ GetImportantWorkAnalysis
    \/ ConsumeResult

Spec == Init /\ [][Next]_vars

\* The analyzer built from timestamps without an offset, and its query that
\* handles them.
InitNaive == Constructed("naive")

NextNaive ==
    \/ \E now1 \in NowSet, now2 \in NowSet : GetBlockedItems(now1, now2)
    \/ ConsumeResult

SpecNaive == InitNaive /\ [][NextNaive]_vars


(***************************************************************************)
(* Claims about the SprintAnalyzer (Spec). They read the raw work items    *)
(* the analyzer was constructed from.                                      *)
(***************************************************************************)
RawState(item) == Get(item.fields, "System.State", "")
RawPoints(item) ==
    Get(item.fields, "Microsoft.VSTS.Scheduling.StoryPoints", 0)
RawPriority(item) == Get(item.fields, "Microsoft.VSTS.Common.Priority", 2)
RawChanged(item) == item.fields["System.ChangedDate"]

RawCompleted == SelectSeq(work_items,
                    LAMBDA it : RawState(it) \in {"Done", "Closed", "Resolved"})

RawPointsSum(items) == SumSeq([k \in 1..Len(items) |-> RawPoints(items[k])])

Called(name) == last_call = name /\ work_items # <<>>

\* C3: on the example sprint (six Closed items of 3,5,2,1,4,2 points, four
\* Active ones of 2,3,1,2) get_sprint_summary returns total_items 10,
\* total_story_points 25, completed_items 6, completed_story_points 17,
\* completion_percentage 60 and story_points_completion 68; on every input
\* completed_items and completed_story_points count exactly the items whose
\* state is Done, Closed or Resolved.
C3_SummaryExample ==
    Called("get_sprint_summary") =>
        /\ result.completed_items = Len(RawCompleted)
        /\ result.completed_story_points = RawPointsSum(RawCompleted)
        /\ work_items = Items(ExampleSprint) =>
              /\ result.total_items = 10
              /\ result.total_story_points = 25
              /\ result.completed_items = 6
              /\ result.completed_story_points = 17
              /\ RatEq(result.completion_percentage, Rat(60, 1))
              /\ RatEq(result.story_points_completion, Rat(68, 1))

\* C3 witness: the summary of the example sprint has been computed.
C3_Witness ==
    /\ Called("get_sprint_summary")
    /\ work_items = Items(ExampleSprint)
    /\ result.total_items = 10

InPercentRange(x) == RatLeq(Rat(0, 1), x) /\ RatLeq(x, Rat(100, 1))

\* C4: for every work-item list the analyzer accepts, completion_percentage
\* and story_points_completion of get_sprint_summary lie in [0,100], and
\* each is 0 when its denominator is 0.
C4_PercentagesInRange ==
    Called("get_sprint_summary") =>
        /\ InPercentRange(result.completion_percentage)
        /\ InPercentRange(result.story_points_completion)
        /\ result.total_items = 0 =>
              RatEq(result.completion_percentage, Rat(0, 1))
        /\ result.total_story_points = 0 =>
              RatEq(result.story_points_completion, Rat(0, 1))

\* C5: for every non-empty work-item list the rows of
\* get_work_item_type_distribution sum to the summary's totals: count to
\* total_items, story_points to total_story_points.
C5_TypeDistributionSums ==
    Called("get_work_item_type_distribution") =>
        /\ SumCol(result, "count") = SprintSummary(df).total_items
        /\ SumCol(result, "count") = Len(work_items)
        /\ SumCol(result, "story_points") = SprintSummary(df).total_story_points
        /\ SumCol(result, "story_points") = RawPointsSum(work_items)

\* C5 witness: a distribution of two types, one of them the empty string of
\* an item that carries no type.
C5_Witness ==
    /\ Called("get_work_item_type_distribution")
    /\ Len(result) = 2
    /\ \E k \in 1..Len(result) : result[k].work_item_type = ""

\* C6: for every non-empty work-item list the rows of get_assignee_workload
\* sum to the summary's total_items, total_story_points, completed_items
\* and completed_story_points.
C6_WorkloadSums ==
    Called("get_assignee_workload") =>
        LET summary == SprintSummary(df) IN
        /\ SumCol(result, "total_items") = summary.total_items
        /\ SumCol(result, "story_points") = summary.total_story_points
        /\ SumCol(result, "completed_items") = summary.completed_items
        /\ SumCol(result, "completed_story_points")
               = summary.completed_story_points

\* C6 witness: a workload of two assignees, one with completed work and one
\* with none.
C6_Witness ==
    /\ Called("get_assignee_workload")
    /\ Len(result) = 2
    /\ \E j, k \in 1..Len(result) :
          result[j].completed_items = 0 /\ result[k].completed_items > 0

\* C7: for every work-item list and iteration window the
\* remaining_story_points of get_daily_progress never increases from one
\* day to the next.
C7_RemainingNonIncreasing ==
    Called("get_daily_progress") =>
        \A k \in 1..(Len(result) - 1) :
            result[k + 1].remaining_story_points
                <= result[k].remaining_story_points

\* C8: get_priority_distribution drops no item: an item whose priority is
\* outside {1,2,3,4} is counted in an "Unknown" bucket, so the counts sum to
\* the number of work items.
C8_UnknownPriorityCounted ==
    Called("get_priority_distribution") =>
        /\ SumCol(result, "count") = Len(work_items)
        /\ (\E k \in 1..Len(work_items) : RawPriority(work_items[k]) \notin 1..4)
              => \E k \in 1..Len(result) : result[k].priority_label = "Unknown"

(***************************************************************************)
(* config.WORK_ITEM_STATES: the category of each state.                    *)
(***************************************************************************)
WORK_ITEM_STATES ==
    [New |-> "proposed", Active |-> "inprogress", Resolved |-> "resolved",
     Closed |-> "completed", Removed |-> "removed", Done |-> "completed",
     Committed |-> "committed"]
    @@ ("To Do" :> "proposed") @@ ("Doing" :> "inprogress")
    @@ ("In Progress" :> "inprogress")

StateCategory(state) == Get(WORK_ITEM_STATES, state, "unknown")

\* C9: get_blocked_items returns exactly the items whose state category is
\* neither completed/resolved nor removed and whose changed_date is earlier
\* than now minus 3 days (a stale Committed or unmapped-state item included).
C9_BlockedExactly ==
    Called("get_blocked_items") =>
        Values(result, "id") =
            {work_items[k].id : k \in
                {j \in 1..Len(work_items) :
                    /\ StateCategory(RawState(work_items[j]))
                           \notin {"completed", "resolved", "removed"}
                    /\ RawChanged(work_items[j]) < now_read - 3 * Day}}

\* C10: all_scores of get_sprint_champion_analysis is ordered by score
\* descending, equal scores by assignee name ascending.
C10_RankingByScoreThenName ==
    Called("get_sprint_champion_analysis") /\ result # EmptyDict =>
        \A k \in 1..(Len(result.all_scores) - 1) :
            LET a == result.all_scores[k]
                b == result.all_scores[k + 1]
            IN \/ RatLt(b.score, a.score)
               \/ /\ RatEq(a.score, b.score)
                  /\ StrRank(a.assignee) < StrRank(b.assignee)

(***************************************************************************)
(* Robustness of the queries.                                              *)
(***************************************************************************)
\* The inputs C11 names: no work items, no completed item, or an iteration
\* record (not the empty one) without its start and finish dates.
AnomalousInput ==
    \/ work_items = <<>>
    \/ RawCompleted = <<>>
    \/ (iteration_info # EmptyDict /\ ~HasDates(iteration_info))

\* C11: on an empty work-item list, on a sprint with no completed item and
\* on an iteration record without start/finish dates, no query of the
\* analyzer raises: whichever query the caller made returned a value.
C11_NoQueryRaises ==
    (last_call # "none" /\ AnomalousInput) => raised = "none"

\* The keys the scalar summaries carry on a non-empty sprint.
ExampleDf == CreateDataframe(Items(ExampleSprint))
SummaryKeys == DOMAIN SprintSummary(ExampleDf)
VelocityKeys == DOMAIN VelocityData(ExampleDf, Iteration(0, 4))

\* C12: on an empty work-item list a scalar summary has the keys it has on a
\* non-empty sprint (get_sprint_summary, get_velocity_data), so the shape of
\* a result does not depend on the input being empty.
C12_EmptyInputSameShape ==
    work_items = <<>> =>
        /\ last_call = "get_sprint_summary" =>
               DOMAIN result = SummaryKeys
        /\ (last_call = "get_velocity_data" /\ raised = "none") =>
               DOMAIN result = VelocityKeys

(***************************************************************************)
(* AzureDevOpsClient: get_iterations, get_current_iteration and            *)
(* get_work_items_by_iteration.                                            *)
(*                                                                         *)
(* An upstream answer is [status, body]: with status "ok" the request gave *)
(* the JSON body; with any other status it raised RequestException         *)
(* (session.get/post could not connect, or raise_for_status on a non-2xx). *)
(***************************************************************************)
Response(status, body) == [status |-> status, body |-> body]
FailureStatuses == {"unauthorized", "server_error", "no_connection"}
Failed(response) == response.status \in FailureStatuses

\* _make_request: the JSON, or st.error and {} on RequestException.
MakeRequest(response) ==
    IF Failed(response) THEN EmptyDict ELSE response.body
MakeRequestErrors(response) == IF Failed(response) THEN 1 ELSE 0

\* An ISO-8601 text with the UTC designator, such as 2024-01-15T00:00:00Z,
\* and datetime.fromisoformat(text.replace('Z', '+00:00')): the aware
\* datetime of that instant, in ticks.
IsoZ(t) == [instant |-> t, designator |-> "Z"]
FromIsoFormat(text) == text.instant

TeamIteration(name, start, finish) ==
    [name |-> name,
     attributes |-> [startDate |-> IsoZ(start), finishDate |-> IsoZ(finish)]]

\* An iteration of the team no dates were set for.
DatelessTeamIteration ==
    [name |-> "Backlog", attributes |-> [timeFrame |-> "future"]]

TeamIterationUniverse ==
    {TeamIteration("Sprint 1", 0, 4), TeamIteration("Sprint 2", 4, 8),
     TeamIteration("Sprint 3", 2, 6), DatelessTeamIteration}

MaxIterations == 2

IterationLists == SeqsUpTo(TeamIterationUniverse, MaxIterations)

IterationsResponses ==
    {Response(status, EmptyDict) : status \in FailureStatuses \cup {"ok"}}
        \cup {Response("ok", [value |-> l]) : l \in IterationLists}

\* The values datetime.now(timezone.utc) takes in get_current_iteration.
CallNowSet == {3, 4, 9}

\* get_iterations: response.get('value', [])
IterationsValue(response) == Get(MakeRequest(response), "value", <<>>)

GetIterations(response) ==
    /\ call_op = "none"
    /\ details_pc = "idle"
    /\ call_op' = "get_iterations"
    /\ call_pc' = "returned"
    /\ call_response' = response
    /\ sent' = Log(sent, [kind |-> "iterations"])
    /\ st_errors' = st_errors + MakeRequestErrors(response)
    /\ call_result' = [kind |-> "list", value |-> IterationsValue(response)]
    /\ UNCHANGED <<call_args, call_now, history, clientVars, analyzerVars, appVars>>

\* get_current_iteration's loop: the first iteration whose window contains
\* current_date, None after the last; the subscripts ['attributes']
\* ['startDate'] and ['finishDate'] raise KeyError on an iteration without
\* them (and None.replace raises AttributeError when they are null).
RECURSIVE CurrentIteration(_, _)
CurrentIteration(iterations, current_date) ==
    IF iterations = <<>> THEN [kind |-> "none", value |-> <<>>]
    ELSE
    LET iteration == Head(iterations) IN
    IF ~HasDates(iteration) THEN [kind |-> "raised", value |-> "KeyError"]
    ELSE
    LET start_date == FromIsoFormat(iteration.attributes.startDate)
        finish_date == FromIsoFormat(iteration.attributes.finishDate)
    IN
    IF start_date <= current_date /\ current_date <= finish_date
    THEN [kind |-> "dict", value |-> iteration]
    ELSE CurrentIteration(Tail(iterations), current_date)

GetCurrentIteration(response, now) ==
    /\ call_op = "none"
    /\ details_pc = "idle"
    /\ call_op' = "get_current_iteration"
    /\ call_response' = response
    /\ sent' = Log(sent, [kind |-> "iterations"])
    /\ call_now' = now
    /\ st_errors' = st_errors + MakeRequestErrors(response)
    /\ LET r == CurrentIteration(IterationsValue(response), now) IN
        /\ call_result' = r
        /\ call_pc' = IF r.kind = "raised" THEN "raised" ELSE "returned"
    /\ UNCHANGED <<call_args, history, clientVars, analyzerVars, appVars>>

\* The WIQL answer's references: [item['id'] for item in
\* wiql_result.get('workItems', [])].
WorkItemRefs(wiql_result) == Get(wiql_result, "workItems", <<>>)
IdLookupRaises(wiql_result) ==
    \E k \in 1..Len(WorkItemRefs(wiql_result)) :
        "id" \notin DOMAIN WorkItemRefs(wiql_result)[k]
WorkItemIds(wiql_result) ==
    [k \in 1..Len(WorkItemRefs(wiql_result)) |->
        WorkItemRefs(wiql_result)[k].id]

WiqlAnswer(n) == [workItems |-> [k \in 1..n |-> [id |-> k]]]
\* A reference that carries no 'id'.
MalformedWiqlAnswer == [workItems |-> <<[url |-> "workItems/1"]>>]

\* The numbers of IDs a WIQL answer holds: none, one, one full batch, and
\* the most the model fetches.
WiqlSizes == {0, 1, batch_size, MaxIds}

WiqlResponses ==
    {Response(status, EmptyDict) : status \in FailureStatuses \cup {"ok"}}
        \cup {Response("ok", WiqlAnswer(n)) : n \in WiqlSizes}
        \cup {Response("ok", MalformedWiqlAnswer)}

(***************************************************************************)
(* The WIQL text. A text is a sequence of pieces: the fixed parts of the   *)
(* f-string are one piece each, an interpolated string is its characters.  *)
(***************************************************************************)
quote == "'"

\* The characters of a path: an ordinary one and the single quote.
PathChars == {"S", quote}

MaxPathLen == 2

\* iteration_path and area_path as the sidebar's text inputs give them; the
\* empty area_path is the one `if area_path:` skips (None or '').
Paths == SeqsUpTo(PathChars, MaxPathLen)

\* self.config['project']
project == <<"TaxProf">>

WiqlQuery(iteration_path, area_path) ==
    <<"SELECT [System.Id], ... FROM WorkItems WHERE [System.IterationPath] = ",
      quote>>
        \o iteration_path
        \o <<quote, " AND [System.TeamProject] = ", quote>>
        \o project
        \o <<quote>>
        \o (IF area_path # <<>>
            THEN <<" AND [System.AreaPath] UNDER ", quote>>
                     \o area_path \o <<quote>>
            ELSE <<>>)
        \o <<" ORDER BY [System.Id]">>

\* What the operation returns when it has no work item to return.
NoItems(op) ==
    IF op = "get_burndown_data" THEN [kind |-> "frame", value |-> <<>>]
    ELSE [kind |-> "list", value |-> <<>>]

\* get_work_items_by_iteration up to its first return or to the call of
\* get_work_items_details; only RequestException is caught. op is the
\* operation the caller invoked: get_work_items_by_iteration itself, or
\* get_burndown_data, which starts by calling it and returns an empty frame
\* when it gets no work item.
StartByIteration(op, iteration_path, area_path, response) ==
    /\ call_op = "none"
    /\ details_pc = "idle"
    /\ call_op' = op
    /\ call_args' = [iteration_path |-> iteration_path,
                     area_path |-> area_path]
    /\ call_response' = response
    /\ sent' = Log(sent, [kind |-> "wiql",
                          query |-> WiqlQuery(iteration_path, area_path)])
    /\ IF Failed(response)
       THEN /\ st_errors' = st_errors + 1
            /\ call_pc' = "returned"
            /\ call_result' = NoItems(op)
            /\ UNCHANGED <<details_pc, work_item_ids>>
       ELSE IF IdLookupRaises(response.body)
       THEN /\ call_pc' = "raised"
            /\ call_result' = [kind |-> "raised", value |-> "KeyError"]
            /\ UNCHANGED <<st_errors, details_pc, work_item_ids>>
       ELSE IF WorkItemIds(response.body) = <<>>
       THEN /\ call_pc' = "returned"
            /\ call_result' = NoItems(op)
            /\ UNCHANGED <<st_errors, details_pc, work_item_ids>>
       ELSE /\ call_pc' = "details"
            /\ details_pc' = "loop"
            /\ work_item_ids' = WorkItemIds(response.body)
            /\ UNCHANGED <<st_errors, call_result>>
    /\ UNCHANGED <<call_now, history, batch_start, all_work_items, posted,
                   responses, details_result, analyzerVars, appVars>>

GetWorkItemsByIteration(iteration_path, area_path, response) ==
    StartByIteration("get_work_items_by_iteration", iteration_path,
                     area_path, response)

\* return self.get_work_items_details(work_item_ids)
ReturnByIteration ==
    /\ call_op = "get_work_items_by_iteration"
    /\ call_pc = "details"
    /\ details_pc = "returned"
    /\ call_pc' = "returned"
    /\ call_result' = [kind |-> "list", value |-> details_result]
    /\ UNCHANGED <<call_op, call_args, call_response, call_now, st_errors,
                   sent, history, clientVars, analyzerVars, appVars>>

(***************************************************************************)
(* AzureDevOpsClient.get_burndown_data and get_work_items_history.         *)
(***************************************************************************)
MaxHistoryIds == 2

BurndownWiqlResponses ==
    {Response(status, EmptyDict) : status \in FailureStatuses \cup {"ok"}}
        \cup {Response("ok", WiqlAnswer(n)) : n \in 0..MaxHistoryIds}
        \cup {Response("ok", MalformedWiqlAnswer)}

\* get_burndown_data(iteration_path): get_work_items_by_iteration with no
\* area path.
GetBurndownData(iteration_path, response) ==
    StartByIteration("get_burndown_data", iteration_path, <<>>, response)

\* get_work_items_by_iteration returned: `if not work_items: return
\* pd.DataFrame()`, else the history of the returned items is fetched.
BurndownGotItems ==
    /\ call_op = "get_burndown_data"
    /\ call_pc = "details"
    /\ details_pc = "returned"
    /\ IF details_result = <<>>
       THEN /\ call_pc' = "returned"
            /\ call_result' = NoItems(call_op)
       ELSE /\ call_pc' = "history"
            /\ UNCHANGED call_result
    /\ UNCHANGED <<call_op, call_args, call_response, call_now, st_errors,
                   sent, history, clientVars, analyzerVars, appVars>>

\* The revisions the upstream holds for a work item: one, changed at the
\* tick of the item's number.
Revisions(work_item_id) ==
    <<[fields |-> ("System.ChangedDate" :> work_item_id)]>>

HistoryResponses(work_item_id) ==
    {Response(status, EmptyDict) : status \in FailureStatuses \cup {"ok"}}
        \cup {Response("ok", [value |-> Revisions(work_item_id)])}

\* One iteration of get_work_items_history's loop: one request per ID.
HistoryRequest ==
    /\ call_pc = "history"
    /\ Len(history) < Len(details_result)
    /\ LET work_item_id == details_result[Len(history) + 1].id IN
       \E response \in HistoryResponses(work_item_id) :
        /\ sent' = Log(sent, [kind |-> "history", id |-> work_item_id])
        /\ st_errors' = st_errors + MakeRequestErrors(response)
        /\ history' = Append(history,
                             [id |-> work_item_id,
                              revisions |->
                                  Get(MakeRequest(response), "value", <<>>)])
    /\ UNCHANGED <<call_op, call_pc, call_args, call_response, call_now,
                   call_result, clientVars, analyzerVars, appVars>>

\* The rows of burndown_data: one per revision, item by item.
RECURSIVE BurndownRows(_)
BurndownRows(hist) ==
    IF hist = <<>> THEN <<>>
    ELSE [k \in 1..Len(Head(hist).revisions) |->
            LET fields == Get(Head(hist).revisions[k], "fields", EmptyDict) IN
            [date         |-> Get(fields, "System.ChangedDate", 0),
             work_item_id |-> Head(hist).id]]
         \o BurndownRows(Tail(hist))

Reverse(rows) == [k \in 1..Len(rows) |-> rows[Len(rows) + 1 - k]]

\* df.sort_values('date') on a non-empty frame (the dates are distinct).
BurndownFrame(hist) ==
    Reverse(SortValuesDesc(BurndownRows(hist), "date"))

ReturnBurndown ==
    /\ call_pc = "history"
    /\ Len(history) = Len(details_result)
    /\ call_pc' = "returned"
    /\ call_result' = [kind |-> "frame", value |-> BurndownFrame(history)]
    /\ UNCHANGED <<call_op, call_args, call_response, call_now, st_errors,
                   sent, history, clientVars, analyzerVars, appVars>>

NextCalls ==
    \/ \E response \in IterationsResponses : GetIterations(response)
    \/ \E response \in IterationsResponses, now \in CallNowSet :
           GetCurrentIteration(response, now)
    \/ \E iteration_path \in Paths, area_path \in Paths,
          response \in WiqlResponses :
           GetWorkItemsByIteration(iteration_path, area_path, response)
    \/ \E iteration_path \in Paths, response \in BurndownWiqlResponses :
           GetBurndownData(iteration_path, response)
    \/ \E n \in 0..MaxIds : call_op = "none" /\ CallDetails(n)
    \/ \E has_value \in BOOLEAN : BatchOk(has_value)
    \/ BatchFail
    \/ ReturnDetails
    \/ ReturnByIteration
    \/ BurndownGotItems
    \/ HistoryRequest
    \/ ReturnBurndown

SpecCalls == InitClient /\ [][NextCalls]_vars

(***************************************************************************)
(* Claims about the client's operations (SpecCalls).                       *)
(***************************************************************************)
\* C13: a client operation turns an upstream failure or an incomplete
\* payload into an empty list or None: no operation ends by raising, and
\* one whose request failed returns the empty value.
C13_NoClientOperationRaises ==
    /\ call_pc # "raised"
    /\ (call_pc = "returned" /\ Failed(call_response)) =>
           call_result.value = <<>>

\* What the two list operations return when the upstream answers
\* successfully with no iteration, with no work item.
SuccessfulEmptyAnswer(op) ==
    IF op = "get_iterations"
    THEN IterationsValue(Response("ok", [value |-> <<>>]))
    ELSE WorkItemIds(WiqlAnswer(0))

\* C14: when the upstream call of get_iterations or
\* get_work_items_by_iteration failed (credentials rejected, non-2xx, no
\* connection), what the operation returns differs from what it returns on
\* a successful answer that holds nothing.
C14_FailureDistinctFromEmpty ==
    (/\ call_pc = "returned"
     /\ call_op \in {"get_iterations", "get_work_items_by_iteration"}
     /\ Failed(call_response)) =>
        call_result.value # SuccessfulEmptyAnswer(call_op)

\* The window of an iteration contains the instant, bounds included.
WindowContains(iteration, now) ==
    /\ HasDates(iteration)
    /\ iteration.attributes.startDate.instant <= now
    /\ now <= iteration.attributes.finishDate.instant

Listed == IterationsValue(call_response)
Hits == {k \in 1..Len(Listed) : WindowContains(Listed[k], call_now)}

\* C20: get_current_iteration returns the first iteration of get_iterations'
\* list whose [startDate, finishDate] contains the current time, bounds
\* included, and returns None exactly when no listed window contains it.
C20_FirstContainingIteration ==
    call_op = "get_current_iteration" =>
        IF Hits = {}
        THEN call_result.kind = "none"
        ELSE /\ call_result.kind = "dict"
             /\ \E k \in Hits : /\ \A j \in Hits : k <= j
                                /\ call_result.value = Listed[k]

(***************************************************************************)
(* Claims about the burndown series and the velocity (Spec).               *)
(***************************************************************************)
\* The calendar day an instant falls on (sprints start at 00:00 UTC).
DayOf(t) == t \div Day

DatedSprint == iteration_info # EmptyDict /\ HasDates(iteration_info)

RawCompletedBy(t) ==
    SelectSeq(RawCompleted, LAMBDA it : RawChanged(it) <= t)

C16_ZeroDurationIdealLine ==
    (/\ last_call = "create_burndown_chart"
     /\ work_items # <<>>
     /\ DatedSprint
     /\ iteration_info.attributes.startDate
            = iteration_info.attributes.finishDate) =>
        /\ Len(result.dates) = 1
        /\ \A k \in 1..Len(result.ideal) : result.ideal[k][2] # 0

\* C17: for a sprint with work items and dates, get_velocity_data returns
\* sprint_duration = the whole days of finish - start, velocity_per_day =
\* completed points / duration (0 when the duration is 0) and
\* completion_rate = completed points / planned points * 100 (0 when the
\* planned points are 0), and it does not raise.
C17_VelocityData ==
    (Called("get_velocity_data") /\ DatedSprint) =>
        LET duration == (iteration_info.attributes.finishDate
                            - iteration_info.attributes.startDate) \div Day
            completed == RawPointsSum(RawCompleted)
            planned == RawPointsSum(work_items)
        IN
        /\ raised = "none"
        /\ result.sprint_duration = duration
        /\ result.completed_story_points = completed
        /\ result.planned_story_points = planned
        /\ IF duration = 0
           THEN result.velocity_per_day[1] = 0
           ELSE RatEq(result.velocity_per_day, <<completed, duration>>)
        /\ IF planned = 0
           THEN result.completion_rate[1] = 0
           ELSE RatEq(result.completion_rate, <<completed * 100, planned>>)

(***************************************************************************)
(* Claims about get_sprint_champion_analysis (Spec).                       *)
(***************************************************************************)
RawType(item) == Get(item.fields, "System.WorkItemType", "")
RawAssignee(item) ==
    IF /\ "System.AssignedTo" \in DOMAIN item.fields
       /\ "displayName" \in DOMAIN item.fields["System.AssignedTo"]
    THEN item.fields["System.AssignedTo"].displayName
    ELSE "Unassigned"

RawOf(assignee) ==
    SelectSeq(work_items, LAMBDA it : RawAssignee(it) = assignee)
RawCompletedOf(assignee) ==
    SelectSeq(RawCompleted, LAMBDA it : RawAssignee(it) = assignee)

\* The types of the model that hold "bug" in any case.
BugTypes == {"Bug", "Hotfix bug"}

\* The claimed score, over the common denominator of its terms:
\* completion_rate * 0.4 is 40 * completed / total.
ClaimedScore(assignee) ==
    LET mine == RawOf(assignee)
        done == RawCompletedOf(assignee)
        points == RawPointsSum(done)
        capped == IF points * 2 <= 30 THEN points * 2 ELSE 30
        high == Len(SelectSeq(done, LAMBDA it : RawPriority(it) <= 2))
        significant == Len(SelectSeq(done, LAMBDA it : RawPoints(it) >= 5))
        bugs == Len(SelectSeq(done, LAMBDA it : RawType(it) \in BugTypes))
    IN
    <<40 * Len(done)
        + Len(mine) * (capped + 5 * high + 3 * significant + 2 * bugs),
      Len(mine)>>

ChampionReturned == Called("get_sprint_champion_analysis") /\ result # EmptyDict

\* C18: every scored candidate's score is completion_rate * 0.4
\* + min(completed_story_points / 10 * 20, 30) + 5 * high_priority_completed
\* + 3 * significant_items_completed + 2 * bug_fixes, the rate and the
\* points being the assignee's own and the three counts taken over the
\* assignee's completed items only (priority <= 2, story points >= 5, type
\* holding "bug" in any case).
C18_ChampionScore ==
    ChampionReturned =>
        \A k \in 1..Len(result.all_scores) :
            RatEq(result.all_scores[k].score,
                  ClaimedScore(result.all_scores[k].assignee))

\* C18 witness: the example sprint; Alice completed 6 of 10 items and 17
\* points (34 capped to 30), all six of priority 2 and one of 5 points:
\* 24 + 30 + 30 + 3 = 87.
C18_Witness ==
    /\ ChampionReturned
    /\ Len(work_items) = 10
    /\ result.champion.assignee = "Alice"
    /\ result.champion.completed_story_points = 17
    /\ RatEq(result.champion.score, <<87, 1>>)

RawAssignees == {RawAssignee(work_items[k]) : k \in 1..Len(work_items)}

\* The assignees the claim makes candidates.
Candidates ==
    {a \in RawAssignees : a # "Unassigned" /\ RawPointsSum(RawOf(a)) >= 3}

\* C19: the assignees get_sprint_champion_analysis scores are exactly those
\* other than "Unassigned" whose story points total at least 3, each scored
\* once; the champion is one of them; and with no such assignee the
\* analysis returns the empty result.
C19_ChampionCandidates ==
    last_call = "get_sprint_champion_analysis" =>
        IF Candidates = {}
        THEN result = EmptyDict
        ELSE /\ result # EmptyDict
             /\ {result.all_scores[k].assignee :
                    k \in 1..Len(result.all_scores)} = Candidates
             /\ Len(result.all_scores) = Cardinality(Candidates)
             /\ result.champion.assignee \in Candidates
             /\ \E k \in 1..Len(result.all_scores) :
                    result.champion = result.all_scores[k]

\* C19 witness: Alice holds exactly 3 points and is the champion; the other
\* item, of 1 point, is nobody's and is not scored.
C19_Witness ==
    /\ ChampionReturned
    /\ Len(work_items) = 2
    /\ "Unassigned" \in RawAssignees
    /\ Len(result.all_scores) = 1
    /\ result.champion.assignee = "Alice"
    /\ result.champion.story_points = 3

(***************************************************************************)
(* Claims about the order of the returned rows (Spec).                     *)
(***************************************************************************)
\* C24: the rows of get_assignee_workload are in descending order of story
\* points, and rows of equal story points are in the order the grouping
\* gave them (groupby orders its keys, so by assignee name ascending).
C24_WorkloadStableOrder ==
    Called("get_assignee_workload") =>
        \A k \in 1..(Len(result) - 1) :
            \/ result[k].story_points > result[k + 1].story_points
            \/ /\ result[k].story_points = result[k + 1].story_points
               /\ StrRank(result[k].assigned_to)
                      < StrRank(result[k + 1].assigned_to)

\* C25: the rows of get_blocked_items are in descending order of
\* days_since_update, the most stale first, and a row's days_since_update
\* is the whole days from the item's changed_date to the instant the query
\* read for the age.
C25_BlockedMostStaleFirst ==
    Called("get_blocked_items") =>
        /\ \A k \in 1..Len(result) :
              result[k].days_since_update =
                  (now_again - RawChanged(work_items[result[k].id])) \div Day
        /\ \A k \in 1..(Len(result) - 1) :
              result[k].days_since_update >= result[k + 1].days_since_update

\* C25 witness: the second item is 4 whole days old (4.5 days), the first
\* 3 (3.5 days): the rows come back in the other order.
C25_Witness ==
    /\ Called("get_blocked_items")
    /\ Len(result) = 2
    /\ result[1].id = 2 /\ result[1].days_since_update = 4
    /\ result[2].id = 1 /\ result[2].days_since_update = 3

(***************************************************************************)
(* Claims about timestamps without an offset (SpecNaive).                  *)
(***************************************************************************)
\* C22: when the changed_date timestamps are timezone-naive (the cutoff is
\* timezone-aware), get_blocked_items raises an error; it does not return
\* rows computed by reading the naive timestamps as UTC.
C22_NaiveTimestampsRaise ==
    (Called("get_blocked_items") /\ changed_tz = "naive") =>
        raised # "none"

(***************************************************************************)
(* Claims about get_important_work_analysis (Spec).                        *)
(***************************************************************************)
BucketNames == {"High Priority Work", "Significant Features", "Bug Fixes",
                "Features & Stories"}

\* The completed items a bucket is about, in the input's order.
RawMatching(bucket) ==
    SelectSeq(RawCompleted,
        LAMBDA it :
            CASE bucket = "High Priority Work" -> RawPriority(it) <= 2
              [] bucket = "Significant Features" -> RawPoints(it) >= 5
              [] bucket = "Bug Fixes" -> RawType(it) \in BugTypes
              [] bucket = "Features & Stories" -> RawType(it) = "User Story")

RawSample(it) ==
    [title          |-> Get(it.fields, "System.Title", ""),
     work_item_type |-> RawType(it),
     assigned_to    |-> RawAssignee(it),
     story_points   |-> RawPoints(it)]

\* C23: in the achievements of get_important_work_analysis each of the four
\* buckets appears, once, exactly when at least one completed item matches
\* it; its count and story_points are those of all its matching items, and
\* its items are the first min(5, count) of them, in order.
C23_AchievementBuckets ==
    Called("get_important_work_analysis") =>
        LET ach == result.achievements IN
        /\ \A b \in BucketNames :
              (\E k \in 1..Len(ach) : ach[k].type = b) <=>
                  RawMatching(b) # <<>>
        /\ \A k \in 1..Len(ach), j \in 1..Len(ach) :
              ach[k].type = ach[j].type => k = j
        /\ \A k \in 1..Len(ach) :
              /\ ach[k].type \in BucketNames
              /\ LET matching == RawMatching(ach[k].type)
                     shown == IF Len(matching) <= 5 THEN Len(matching) ELSE 5
                 IN
                 /\ ach[k].count = Len(matching)
                 /\ ach[k].story_points = RawPointsSum(matching)
                 /\ Len(ach[k].items) = shown
                 /\ \A i \in 1..shown :
                        ach[k].items[i] = RawSample(matching[i])

\* C23 witness: the example sprint; six completed items of priority 2 (17
\* points) and five of them shown, one completed item of 5 points, and no
\* bucket for bug fixes or stories.
C23_Witness ==
    /\ Called("get_important_work_analysis")
    /\ Len(result.achievements) = 2
    /\ result.achievements[1].type = "High Priority Work"
    /\ result.achievements[1].count = 6
    /\ result.achievements[1].story_points = 17
    /\ Len(result.achievements[1].items) = 5
    /\ result.achievements[2].type = "Significant Features"
    /\ result.achievements[2].count = 1

(***************************************************************************)
(* How a WIQL reader takes the text apart: a single quote opens a string   *)
(* literal; inside one, two single quotes in a row are one quote           *)
(* character and a lone single quote closes the literal. Everything        *)
(* outside a literal is query text.                                        *)
(***************************************************************************)
Literal(chars) == [literal |-> chars]
Unterminated(chars) == [unterminated |-> chars]

RECURSIVE LexText(_)
RECURSIVE LexLiteral(_, _)
LexText(text) ==
    IF text = <<>> THEN <<>>
    ELSE IF Head(text) = quote THEN LexLiteral(Tail(text), <<>>)
    ELSE <<Head(text)>> \o LexText(Tail(text))

LexLiteral(text, chars) ==
    IF text = <<>> THEN <<Unterminated(chars)>>
    ELSE IF Head(text) # quote
    THEN LexLiteral(Tail(text), Append(chars, Head(text)))
    ELSE IF Len(text) >= 2 /\ text[2] = quote
    THEN LexLiteral(Tail(Tail(text)), Append(chars, quote))
    ELSE <<Literal(chars)>> \o LexText(Tail(text))

\* The query the caller means: the fixed clauses, with the three strings as
\* the values of their literals.
IntendedQuery(iteration_path, area_path) ==
    <<"SELECT [System.Id], ... FROM WorkItems WHERE [System.IterationPath] = ",
      Literal(iteration_path),
      " AND [System.TeamProject] = ",
      Literal(project)>>
        \o (IF area_path # <<>>
            THEN <<" AND [System.AreaPath] UNDER ", Literal(area_path)>>
            ELSE <<>>)
        \o <<" ORDER BY [System.Id]">>

HasQuote(path) == \E k \in DOMAIN path : path[k] = quote

\* C21: every WIQL query sent by get_work_items_by_iteration reads as the
\* fixed clauses with literals that denote exactly iteration_path, the
\* project and area_path: the input adds or changes no clause, also when it
\* holds a single quote.
C21_QuotedLiteralsDenoteInputs ==
    \A k \in DOMAIN sent :
        sent[k].kind = "wiql" =>
            LexText(sent[k].query)
                = IntendedQuery(call_args.iteration_path, call_args.area_path)

\* The same, for the inputs without a single quote.
C21_QuoteFreeInputsDenoteThemselves ==
    \A k \in DOMAIN sent :
        (/\ sent[k].kind = "wiql"
         /\ ~HasQuote(call_args.iteration_path)
         /\ ~HasQuote(call_args.area_path)) =>
            LexText(sent[k].query)
                = IntendedQuery(call_args.iteration_path, call_args.area_path)

\* The kinds of the requests sent so far, in order.
SentKinds == [k \in DOMAIN sent |-> sent[k].kind]
SentOf(kind) == {k \in DOMAIN sent : sent[k].kind = kind}

\* The ID query gave nothing to look up: it failed, or answered with no
\* reference (read from the raw answer).
IdQueryGaveNoIds ==
    \/ call_response.status # "ok"
    \/ "workItems" \notin DOMAIN call_response.body
    \/ call_response.body["workItems"] = <<>>

IdQueryOps == {"get_work_items_by_iteration", "get_burndown_data"}

C30_WitnessNoItems ==
    /\ call_op = "get_burndown_data"
    /\ call_pc = "returned"
    /\ SentKinds = <<"wiql", "batch">>

(***************************************************************************)
(* src/app.py: the Streamlit script. Every interaction of the user with    *)
(* the page runs main() again: a new SprintDashboard, whose self.analyzer  *)
(* is None, and its run(). Only st.session_state lives across the runs.    *)
(* One run is one action; the user's interaction that caused it, the       *)
(* values of the sidebar's widgets and the upstream's answer to a load are *)
(* its inputs.                                                             *)
(***************************************************************************)
MaxClicks == 2

Put(d, key, value) == (key :> value) @@ d

\* The values the sidebar's inputs can hold.
Pats == {"", "pat"}
Organizations == {"", "tr-tax"}
SprintChoices == {"Select a sprint...", "", "Sprint 1", "Sprint 2"}
AreaPaths == {"", "Area"}

\* setup_sidebar's return value.
Configs ==
    [pat : Pats, organization : Organizations, project : {"TaxProf"},
     team : {"ADGE-Prep"}, selected_sprint : SprintChoices,
     area_path : AreaPaths]

FetchDataDisabled(config) ==
    \/ config.pat = ""
    \/ config.organization = ""
    \/ config.project = ""
    \/ config.team = ""
    \/ config.selected_sprint = "Select a sprint..."
    \/ config.selected_sprint = ""
    \/ config.area_path = ""

\* The sprints Load Sprints has put in the session, if it has.
LoadedIterations ==
    <<[name |-> "Sprint 1", path |-> "TaxProf\\Sprint 1"]>>
IterationsToSearch == {<<>>, LoadedIterations}

\* The mock iteration of a sprint name that is not among the loaded ones.
MockIteration(selected_sprint) ==
    [name |-> selected_sprint, path |-> selected_sprint]

SelectedIteration(iterations_to_search, selected_sprint) ==
    IF \E k \in DOMAIN iterations_to_search :
           iterations_to_search[k].name = selected_sprint
    THEN iterations_to_search[
             CHOOSE k \in DOMAIN iterations_to_search :
                 /\ iterations_to_search[k].name = selected_sprint
                 /\ \A j \in 1..(k - 1) :
                        iterations_to_search[j].name # selected_sprint]
    ELSE MockIteration(selected_sprint)

\* What get_work_items_by_iteration does in a load: the ID query fails
\* (st.error, []), it succeeds with no work item ([]), it answers with a
\* reference that has no 'id' (KeyError), every detail batch fails ([]),
\* or work items come back.
LoadAnswers ==
    {"request_failed", "no_work_items", "malformed", "details_failed",
     "work_items"}

ByIterationRaises(answer) == answer = "malformed"
ByIterationItems(answer) ==
    IF answer = "work_items" THEN BatchValue(<<1>>) ELSE <<>>

\* load_data_with_config: what it returns and what self.analyzer is after.
LoadDataWithConfig(config, iterations_to_search, answer) ==
    IF ByIterationRaises(answer)
    THEN [returned |-> FALSE, analyzer |-> None]
    ELSE IF ByIterationItems(answer) = <<>>
    THEN [returned |-> FALSE, analyzer |-> None]
    ELSE [returned |-> TRUE,
          analyzer |->
              [work_items |-> ByIterationItems(answer),
               iteration_info |->
                   SelectedIteration(iterations_to_search,
                                     config.selected_sprint)]]

ShouldLoadData(session, config) ==
    /\ "fetch_data_clicked" \in DOMAIN session
    /\ session["fetch_data_clicked"]
    /\ config.selected_sprint # "Select a sprint..."
    /\ config.area_path # ""

\* run() after a load: the session's data_loaded and current_config.
SessionAfterLoadKeepsOnFailure(session, config, loaded) ==
    IF loaded
    THEN Put(Put(session, "data_loaded", TRUE), "current_config", config)
    ELSE session
SessionAfterLoad(session, config, loaded) ==
    IF loaded
    THEN Put(Put(session, "data_loaded", TRUE), "current_config", config)
    ELSE Put(session, "data_loaded", FALSE)

\* run() clears the flag before the load.
FlagKept(session) == session
FlagReset(session) == Put(session, "fetch_data_clicked", FALSE)

\* The methods called in the tabs, in order. The last tab calls
\* setup_sidebar a second time, whose first input repeats a widget of this
\* run: Streamlit raises on the duplicate and the run ends there, before
\* the second Fetch Data button and display_getting_started_section.
TabDisplays ==
    {"display_sprint_overview", "display_burndown_analysis",
     "display_work_item_analysis", "display_team_analysis",
     "display_quality_metrics", "display_raw_data_tab"}

\* The render step of run().
RendersTabs(session, dashboard_analyzer) ==
    /\ "data_loaded" \in DOMAIN session
    /\ session["data_loaded"]
    /\ dashboard_analyzer # None

\* One run of main(). interaction is what the user did to cause it:
\* "edit" (a changed input, or the page opened), "fetch" (a click on Fetch
\* Data) or "guide" (a click on the guide's hide or show button). A button
\* can be clicked only if the page shows it. The click on Fetch Data may
\* come with an edit that disables the button in this very run; whether the
\* button then still returns True is left open.
Main(interaction, config, iterations_to_search, answer) ==
    \E pressed \in (IF interaction # "fetch" THEN {FALSE}
                    ELSE IF FetchDataDisabled(config) THEN BOOLEAN
                    ELSE {TRUE}) :
    LET clicked == IF pressed
                   THEN Put(session_state, "fetch_data_clicked", TRUE)
                   ELSE session_state
        no_data == ~Get(clicked, "data_loaded", FALSE)
        shown == IF no_data /\ "show_getting_started" \notin DOMAIN clicked
                 THEN Put(clicked, "show_getting_started", TRUE)
                 ELSE clicked
        rerun == no_data /\ interaction = "guide"
        incomplete ==
            \/ config.pat = ""
            \/ config.organization = ""
            \/ config.project = ""
            \/ config.team = ""
        attempted == ~rerun /\ ~incomplete /\ ShouldLoadData(shown, config)
        load == LoadDataWithConfig(config, iterations_to_search, answer)
        after == IF attempted
                 THEN SessionAfterLoad(FlagReset(shown), config,
                                       load.returned)
                 ELSE shown
        built == IF attempted THEN load.analyzer ELSE None
        reached == ~rerun /\ ~incomplete /\ (attempted => load.returned)
    IN
    /\ interaction = "fetch" => fetch_enabled /\ clicks < MaxClicks
    /\ interaction = "guide" => guide_rendered
    /\ (answer = "none") = ~attempted
    /\ iterations_to_search # <<>> => attempted /\ load.returned
    /\ session_state' =
           IF rerun
           THEN Put(shown, "show_getting_started",
                    ~shown["show_getting_started"])
           ELSE after
    /\ self_analyzer' = built
    /\ run_config' = config
    /\ fetch_pressed' = pressed
    /\ load_attempted' = attempted
    /\ load_answer' = answer
    /\ load_returned' = (attempted /\ load.returned)
    /\ rendered' = IF ~reached THEN "nothing"
                   ELSE IF RendersTabs(after, built) THEN "tabs"
                   ELSE "instructions"
    /\ displayed' =
           {"display_header"}
               \cup (IF no_data /\ ~rerun /\ shown["show_getting_started"]
                     THEN {"display_getting_started_section"} ELSE {})
               \cup (IF reached /\ RendersTabs(after, built)
                     THEN TabDisplays ELSE {})
    /\ fetch_enabled' = (~rerun /\ ~FetchDataDisabled(config))
    /\ guide_rendered' = (no_data /\ ~rerun)
    /\ clicks' = IF interaction = "fetch" THEN clicks + 1 ELSE clicks
    /\ loads' = IF attempted THEN loads + 1 ELSE loads
    /\ UNCHANGED <<clientVars, callVars, analyzerVars>>

Inputs(interaction) ==
    \E config \in Configs, iterations_to_search \in IterationsToSearch,
       answer \in LoadAnswers \cup {"none"} :
        Main(interaction, config, iterations_to_search, answer)

\* A run caused by an edited input, or by opening the page.
Rerun == Inputs("edit")
ClickFetchData == Inputs("fetch")
ClickGuideButton == Inputs("guide")

NextApp == Rerun \/ ClickFetchData \/ ClickGuideButton

SpecApp == InitClient /\ [][NextApp]_vars

\* The session's data_loaded is True.
DataLoaded ==
    "data_loaded" \in DOMAIN session_state /\ session_state["data_loaded"]

CurrentConfig == Get(session_state, "current_config", None)

\* The sidebar's values pass every check that run() makes before a load
\* other than the flag.
LoadableConfig(config) ==
    /\ config.pat # ""
    /\ config.organization # ""
    /\ config.selected_sprint \notin {"Select a sprint...", ""}
    /\ config.area_path # ""

\* C26: a load whose ID query succeeded with zero work items is a valid
\* empty state: load_data_with_config returned True, data_loaded is True
\* and the run rendered the dashboard tabs.
C26_EmptySprintLoads ==
    (load_attempted /\ load_answer = "no_work_items") =>
        /\ load_returned
        /\ DataLoaded
        /\ rendered = "tabs"

\* C27: each click on Fetch Data causes at most one load attempt: there are
\* never more load attempts than clicks, a run that attempted a load leaves
\* fetch_data_clicked False, and the run after it attempts no load unless
\* its button was pressed again.
C27_OneLoadPerClick ==
    /\ [](/\ loads <= clicks
          /\ load_attempted =>
                 /\ "fetch_data_clicked" \in DOMAIN session_state
                 /\ ~session_state["fetch_data_clicked"])
    /\ [][(load_attempted /\ ~fetch_pressed') => ~load_attempted']_vars

\* After one click and its load, a run without a click whose sidebar
\* values would allow a load attempted none.
C27_Witness ==
    /\ clicks = 1
    /\ loads = 1
    /\ ~fetch_pressed
    /\ ~load_attempted
    /\ rendered # "nothing"
    /\ LoadableConfig(run_config)

\* C28: after a run that attempted a load, data_loaded is what
\* load_data_with_config returned (so a failed load resets it), and
\* current_config changes only in a run whose load returned True, to that
\* run's configuration.
C28_DataLoadedFollowsLoad ==
    /\ [](load_attempted =>
              /\ "data_loaded" \in DOMAIN session_state
              /\ session_state["data_loaded"] = load_returned)
    /\ [][CurrentConfig' # CurrentConfig =>
              /\ load_attempted'
              /\ load_returned'
              /\ CurrentConfig' = run_config']_vars

\* A load failed after an earlier one had succeeded: data_loaded is False
\* and current_config is still the earlier configuration.
C28_Witness ==
    /\ load_attempted
    /\ ~load_returned
    /\ ~DataLoaded
    /\ CurrentConfig # None
    /\ CurrentConfig # run_config

\* C29: a run that made no load attempt and reached the render step with
\* data_loaded True (an earlier fetch succeeded) rendered the tabs; and the
\* tabs' display_* methods were called only with self.analyzer set.
C29_TabsStayAfterFetch ==
    /\ (~load_attempted /\ rendered # "nothing" /\ DataLoaded)
           => rendered = "tabs"
    /\ displayed \cap TabDisplays # {} => self_analyzer # None

\* The second half alone.
C29_TabDisplaysHaveAnalyzer ==
    displayed \cap TabDisplays # {} => self_analyzer # None

====
